---- MODULE Spec2Model ----
(***************************************************************************)
(* Model of core/commands/ls.go: the `ls` command's Run function (the      *)
(* driver with its Streaming and Batch aggregation closures), the          *)
(* traversal goroutine it starts per path, and the tabular renderer with   *)
(* its two callers (PostRun for the CLI, the Text encoder).                *)
(*                                                                         *)
(* Strings are sequences of byte values, so that strings.Compare is the    *)
(* byte-wise lexicographic order and "" is the empty sequence.             *)
(***************************************************************************)
EXTENDS Integers, Sequences, FiniteSets, TLC

\* ------------------------------------------------------------------ bounds
\* the longest list of requested paths
MaxPaths == 2
\* the most entries all traversals of one run deliver together
MaxEntries == 2

\* ------------------------------------------------------------ byte strings
EmptyStr == << >>
KeyA == <<97>>
KeyB == <<98>>
\* a path string that cmdutils.PathOrCidPath rejects
BadKey == <<33>>
Keys == {KeyA, KeyB, BadKey}

RECURSIVE Compare(_, _)
\* strings.Compare: -1, 0, +1 by byte-wise lexicographic order
Compare(a, b) ==
    IF a = << >> /\ b = << >> THEN 0
    ELSE IF a = << >> THEN -1
    ELSE IF b = << >> THEN 1
    ELSE IF Head(a) < Head(b) THEN -1
    ELSE IF Head(a) > Head(b) THEN 1
    ELSE Compare(Tail(a), Tail(b))

\* ------------------------------------------------- entries of a traversal
\* iface.DirEntry values a traversal can deliver (Name, Cid, Size, Type)
DirEntries ==
    { [Name |-> <<98>>,     Cid |-> 1, Size |-> 3, Type |-> "iface.TFile"],
      [Name |-> <<97>>,     Cid |-> 2, Size |-> 0, Type |-> "iface.TDirectory"],
      [Name |-> <<97, 98>>, Cid |-> 3, Size |-> 7, Type |-> "iface.TUnknown"] }

\* the switch on link.Type: ftype keeps its zero value (Raw) when no case matches
FType(t) ==
    CASE t = "iface.TFile" -> "TFile"
      [] t = "iface.TDirectory" -> "TDirectory"
      [] t = "iface.TSymlink" -> "TSymlink"
      [] OTHER -> "TRaw"

\* enc.Encode(link.Cid): the display string of a content identifier
Encode(c) == <<81, 109, 48 + c>>

\* the LsLink built from a received DirEntry
MakeLsLink(link) ==
    [Name |-> link.Name, Hash |-> Encode(link.Cid), Size |-> link.Size,
     Type |-> FType(link.Type)]

LsObject(hash, links) == [Hash |-> hash, Links |-> links]
LsOutput(objects) == [Objects |-> objects]

\* ------------------------------------------------------ aggregation policy
\* mutant: the unit is keyed by the link's hash instead of the requested path
StreamUnitByHash(path, link) == [Objects |-> <<[Hash |-> link.Hash, Links |-> <<link>>]>>]

\* Streaming processLink: the unit handed to res.Emit for one link
StreamUnit(path, link) == LsOutput(<<LsObject(path, <<link>>)>>)

\* a buffer that keeps the latest link only
BatchAppendLatest(outputLinks, link) == <<link>>

\* Batch processLink: outputLinks = append(outputLinks, link)
BatchAppend(outputLinks, link) == Append(outputLinks, link)

IsSortedByName(s) ==
    \A k \in 1..(Len(s) - 1) : Compare(s[k].Name, s[k + 1].Name) <= 0

\* mutant: the buffer is stored as it arrived
SortFuncNone(links) == {links}

\* slices.SortFunc by strings.Compare on Name; the sort is not stable, so every
\* name-ordered permutation of the buffer is a possible result
SortFunc(links) ==
    { t \in { [k \in 1..Len(links) |-> links[f[k]]] : f \in Permutations(1..Len(links)) } :
        IsSortedByName(t) }

\* Batch dirDone: output[i] = LsObject{Hash: paths[i], Links: outputLinks}
StoreGroup(out, ps, idx, links) == [out EXCEPT ![idx] = LsObject(ps[idx], links)]

\* ------------------------------------------------------------ the renderer
Colon == 58
Slash == 47
Dash == 45
HashStr == <<72, 97, 115, 104>>
SizeStr == <<83, 105, 122, 101>>
NameStr == <<78, 97, 109, 101>>

RECURSIVE Decimal(_)
\* %v of a uint64: its decimal digits
Decimal(n) == IF n < 10 THEN <<48 + n>> ELSE Decimal(n \div 10) \o <<48 + (n % 10)>>

IsPrint(c) == c >= 32 /\ c # 127
HexDigit(d) == IF d < 10 THEN 48 + d ELSE 87 + d
RECURSIVE EscNonPrint(_)
\* cmdenv.EscNonPrint: non-printable bytes are replaced by a \xNN escape
EscNonPrint(name) ==
    IF name = << >> THEN << >>
    ELSE (IF IsPrint(Head(name)) THEN <<Head(name)>>
          ELSE <<92, 120, HexDigit(Head(name) \div 16), HexDigit(Head(name) % 16)>>)
         \o EscNonPrint(Tail(name))

\* a line written to the tabwriter: which statement wrote it, and its tab-separated cells
BlankLine == [kind |-> "blank", cells |-> << >>]
LabelLine(hash) == [kind |-> "label", cells |-> <<hash \o <<Colon>>>>]
HeaderLine(size) ==
    [kind |-> "header",
     cells |-> IF size THEN <<HashStr, SizeStr, NameStr>> ELSE <<HashStr, NameStr>>]

\* a renderer that takes a symlink for a directory as well
DirLikeOrSymlink(type) == type \in {"TDirectory", "THAMTShard", "TMetadata", "TSymlink"}

\* case unixfs.TDirectory, unixfs.THAMTShard, unixfs.TMetadata
DirLike(type) == type \in {"TDirectory", "THAMTShard", "TMetadata"}

\* the row of one link: the format chosen by link.Type and size, applied to
\* link.Hash, link.Size, EscNonPrint(link.Name)
LinkRow(link, size) ==
    [kind |-> "row",
     cells |->
        IF DirLike(link.Type)
        THEN IF size THEN <<link.Hash, <<Dash>>, EscNonPrint(link.Name) \o <<Slash>>>>
             ELSE <<link.Hash, EscNonPrint(link.Name) \o <<Slash>>>>
        ELSE IF size THEN <<link.Hash, Decimal(link.Size), EscNonPrint(link.Name)>>
             ELSE <<link.Hash, EscNonPrint(link.Name)>>]

\* a break test that does not look at ignoreBreaks
IsBreakAlways(hash, lastObjectHash, ignoreBreaks) == hash # lastObjectHash

\* whether an object starts a new group for the renderer
IsBreak(hash, lastObjectHash, ignoreBreaks) == ~ignoreBreaks /\ hash # lastObjectHash

\* a renderer that labels every group, whatever the number of requested paths
BreakLinesAlwaysLabel(hash, lastObjectHash, ignoreBreaks, multipleFolders, hdrs, size) ==
    IF IsBreak(hash, lastObjectHash, ignoreBreaks)
    THEN (IF lastObjectHash # EmptyStr THEN <<BlankLine>> ELSE << >>)
         \o <<LabelLine(hash)>>
         \o (IF hdrs THEN <<HeaderLine(size)>> ELSE << >>)
    ELSE << >>

\* the lines printed before an object's rows
BreakLines(hash, lastObjectHash, ignoreBreaks, multipleFolders, hdrs, size) ==
    IF IsBreak(hash, lastObjectHash, ignoreBreaks)
    THEN (IF multipleFolders
          THEN (IF lastObjectHash # EmptyStr THEN <<BlankLine>> ELSE << >>)
               \o <<LabelLine(hash)>>
          ELSE << >>)
         \o (IF hdrs THEN <<HeaderLine(size)>> ELSE << >>)
    ELSE << >>

LinkRows(links, size) == [k \in 1..Len(links) |-> LinkRow(links[k], size)]

RECURSIVE RenderObjects(_, _, _, _)
\* the loop over out.Objects; acc is [lines, last]
RenderObjects(objects, acc, req, ignoreBreaks) ==
    IF objects = << >> THEN acc
    ELSE LET object == Head(objects)
             brk == IsBreak(object.Hash, acc.last, ignoreBreaks)
         IN RenderObjects(
              Tail(objects),
              [lines |-> acc.lines
                         \o BreakLines(object.Hash, acc.last, ignoreBreaks,
                                       Len(req.Arguments) > 1, req.headers, req.size)
                         \o LinkRows(object.Links, req.size),
               last |-> IF brk THEN object.Hash ELSE acc.last],
              req, ignoreBreaks)

\* a renderer that hands back the key it was given
TabularOutputKeepsKey(req, out, lastObjectHash, ignoreBreaks) ==
    LET r == RenderObjects(out.Objects, [lines |-> << >>, last |-> lastObjectHash],
                           req, ignoreBreaks)
    IN [lines |-> r.lines, last |-> lastObjectHash,
        minTabWidth |-> IF req.stream THEN 10 ELSE 1]

\* tabularOutput: the lines flushed to w, the returned lastObjectHash, and the
\* tabwriter's minimum cell width
TabularOutput(req, out, lastObjectHash, ignoreBreaks) ==
    LET r == RenderObjects(out.Objects, [lines |-> << >>, last |-> lastObjectHash],
                           req, ignoreBreaks)
    IN [lines |-> r.lines, last |-> r.last,
        minTabWidth |-> IF req.stream THEN 10 ELSE 1]

\* ------------------------------------------------------------------- state
VARIABLES
    paths,        \* req.Arguments
    stream,       \* the stream option
    pc,           \* driver position: "loop", "drain", "wait", "done"
    i,            \* index of the path loop (1-based)
    retErr,       \* what Run returned: "running", "nil" or an error
    task,         \* per path, the traversal goroutine: "idle", "run", "closed", "exit"
    taskRes,      \* per path, the value api.Unixfs().Ls returned
    pending,      \* per path, the entry the task is blocked sending on results
    lsErr,        \* per path, the buffered error channel (capacity 1)
    outputLinks,  \* Batch: the buffer of the current directory
    output,       \* Batch: the []LsObject, one slot per requested path
    emitted,      \* the units handed to the response emitter, in order
    cancelled,    \* req.Context has been cancelled
    sent,         \* history: per path, the entries the driver received from the feed
    recvRes,      \* history: per path, the terminal result the driver received
    dirDoneRan,   \* history: the paths whose dirDone(i) has run
    cancelAt,     \* history: the path in flight when req.Context was cancelled (0: none)
    headers,      \* the headers option
    size,         \* the size option
    transport,    \* who renders: "cli" (PostRun) or "text" (the Text encoder)
    resp,         \* the units the renderer has been given, in order
    respIdx,      \* history: per unit, the requested path it came from (0: a Batch unit)
    lastObjectHash, \* PostRun's lastObjectHash
    tw,           \* the lines written so far
    rdone,        \* PostRun has returned
    call          \* one application of tabularOutput: its arguments and its results

dvars == <<pc, i, retErr, task, taskRes, pending, lsErr, outputLinks, output, emitted,
           cancelled, sent, recvRes, dirDoneRan, cancelAt>>
rvars == <<headers, size, transport, resp, respIdx, lastObjectHash, tw, rdone, call>>
vars == <<paths, stream, dvars, rvars>>

N == Len(paths)

RECURSIVE SumLen(_, _)
SumLen(f, n) == IF n = 0 THEN 0 ELSE Len(f[n]) + SumLen(f, n - 1)
\* entries delivered so far, over all paths
TotalSent == SumLen(sent, N)

\* mutant: lsCtx is not derived from req.Context
LsCtxDetached == pc = "done"

\* mutant: Run returns without cancelling lsCtx
LsCtxNotReleased == cancelled

\* lsCtx is derived from req.Context and cancelled by the deferred cancel()
LsCtxDone == cancelled \/ pc = "done"

FeedClosed(k) == task[k] \in {"closed", "exit"}

PathLists == UNION { [1..n -> Keys] : n \in 1..MaxPaths }

\* the state of Run before its path loop
DriverInit ==
    /\ pc = "loop"
    /\ i = 1
    /\ retErr = "running"
    /\ task = [k \in 1..N |-> "idle"]
    /\ taskRes = [k \in 1..N |-> "none"]
    /\ pending = [k \in 1..N |-> << >>]
    /\ lsErr = [k \in 1..N |-> << >>]
    /\ outputLinks = << >>
    /\ output = IF stream THEN << >> ELSE [k \in 1..N |-> LsObject(EmptyStr, << >>)]
    /\ emitted = << >>
    /\ cancelled = FALSE
    /\ sent = [k \in 1..N |-> << >>]
    /\ recvRes = [k \in 1..N |-> "none"]
    /\ dirDoneRan = {}
    /\ cancelAt = 0

\* the renderer before its first unit
\* tabularOutput has not been applied
NoCall ==
    [made |-> FALSE, out |-> LsOutput(<< >>), lastObjectHash |-> EmptyStr,
     ignoreBreaks |-> FALSE, lines |-> << >>, last |-> EmptyStr]

RenderInit ==
    /\ call = NoCall
    /\ resp = << >>
    /\ respIdx = << >>
    /\ lastObjectHash = EmptyStr
    /\ tw = << >>
    /\ rdone = FALSE

Init ==
    /\ paths \in PathLists
    /\ stream \in BOOLEAN
    /\ DriverInit
    /\ headers = FALSE /\ size = TRUE /\ transport = "cli"
    /\ RenderInit

\* ------------------------------------------------------------ the driver
Return(err) == pc' = "done" /\ retErr' = err

\* cmdutils.PathOrCidPath(fpath)
PathOrCidPath(fpath) == IF fpath = BadKey THEN "ParseErr" ELSE "nil"

\* mutant: no error is ever treated as a failure
FailedNever(err) == FALSE

\* err != nil
Failed(err) == err # "nil"

\* mutant: one buffer for all directories, never emptied
StartPathSharedBuffer ==
    /\ pc = "loop" /\ i <= N
    /\ IF Failed(PathOrCidPath(paths[i]))
       THEN /\ Return(PathOrCidPath(paths[i]))
            /\ UNCHANGED task
       ELSE /\ task' = [task EXCEPT ![i] = "run"]
            /\ pc' = "drain"
            /\ UNCHANGED retErr
    /\ UNCHANGED <<paths, stream, i, taskRes, pending, lsErr, outputLinks, output, emitted,
                   cancelled, sent, recvRes, dirDoneRan, cancelAt, rvars>>

\* top of the path loop with a path left: parse it, start the traversal
\* goroutine, take fresh closures from processDir()
StartPath ==
    /\ pc = "loop" /\ i <= N
    /\ IF Failed(PathOrCidPath(paths[i]))
       THEN /\ Return(PathOrCidPath(paths[i]))
            /\ UNCHANGED <<task, outputLinks>>
       ELSE /\ task' = [task EXCEPT ![i] = "run"]
            /\ outputLinks' = << >>
            /\ pc' = "drain"
            /\ UNCHANGED retErr
    /\ UNCHANGED <<paths, stream, i, taskRes, pending, lsErr, output, emitted,
                   cancelled, sent, recvRes, dirDoneRan, cancelAt, rvars>>

\* mutant: a Streaming unit goes out ahead of the units emitted before it
RecvLinkEmitAhead ==
    /\ pc = "drain" /\ pending[i] # << >>
    /\ LET link == MakeLsLink(pending[i][1]) IN
       /\ pending' = [pending EXCEPT ![i] = << >>]
       /\ sent' = [sent EXCEPT ![i] = Append(@, pending[i][1])]
       /\ IF stream
          THEN /\ emitted' = <<StreamUnit(paths[i], link)>> \o emitted
               /\ \E emitErr \in {"nil", "EmitErr"} :
                    IF Failed(emitErr) THEN Return(emitErr) ELSE UNCHANGED <<pc, retErr>>
               /\ UNCHANGED outputLinks
          ELSE /\ outputLinks' = BatchAppend(outputLinks, link)
               /\ UNCHANGED <<emitted, pc, retErr>>
    /\ UNCHANGED <<paths, stream, i, task, taskRes, lsErr, output, cancelled,
                   recvRes, dirDoneRan, cancelAt, rvars>>

\* mutant: the driver takes an entry only once the traversal's result is in lsErr
RecvLinkAfterResult ==
    /\ pc = "drain" /\ pending[i] # << >> /\ lsErr[i] # << >>
    /\ LET link == MakeLsLink(pending[i][1]) IN
       /\ pending' = [pending EXCEPT ![i] = << >>]
       /\ sent' = [sent EXCEPT ![i] = Append(@, pending[i][1])]
       /\ IF stream
          THEN /\ emitted' = Append(emitted, StreamUnit(paths[i], link))
               /\ \E emitErr \in {"nil", "EmitErr"} :
                    IF Failed(emitErr) THEN Return(emitErr) ELSE UNCHANGED <<pc, retErr>>
               /\ UNCHANGED outputLinks
          ELSE /\ outputLinks' = BatchAppend(outputLinks, link)
               /\ UNCHANGED <<emitted, pc, retErr>>
    /\ UNCHANGED <<paths, stream, i, task, taskRes, lsErr, output, cancelled,
                   recvRes, dirDoneRan, cancelAt, rvars>>

\* one iteration of `for link := range results`: receive the entry the task
\* is sending, build the LsLink, call processLink
RecvLink ==
    /\ pc = "drain" /\ pending[i] # << >>
    /\ LET link == MakeLsLink(pending[i][1]) IN
       /\ pending' = [pending EXCEPT ![i] = << >>]
       /\ sent' = [sent EXCEPT ![i] = Append(@, pending[i][1])]
       /\ IF stream
          THEN /\ emitted' = Append(emitted, StreamUnit(paths[i], link))
               /\ \E emitErr \in {"nil", "EmitErr"} :
                    IF Failed(emitErr) THEN Return(emitErr) ELSE UNCHANGED <<pc, retErr>>
               /\ UNCHANGED outputLinks
          ELSE /\ outputLinks' = BatchAppend(outputLinks, link)
               /\ UNCHANGED <<emitted, pc, retErr>>
    /\ UNCHANGED <<paths, stream, i, task, taskRes, lsErr, output, cancelled,
                   recvRes, dirDoneRan, cancelAt, rvars>>

\* mutant: when results is closed the loop moves on without reading lsErr
SeeCloseNext ==
    /\ pc = "drain" /\ task[i] \in {"closed", "exit"}
    /\ pc' = "loop"
    /\ i' = i + 1
    /\ UNCHANGED <<paths, stream, retErr, task, taskRes, pending, lsErr, outputLinks,
                   output, emitted, cancelled, sent, recvRes, dirDoneRan, cancelAt, rvars>>

\* the range loop ends when results is closed
SeeClose ==
    /\ pc = "drain" /\ FeedClosed(i)
    /\ pc' = "wait"
    /\ UNCHANGED <<paths, stream, i, retErr, task, taskRes, pending, lsErr, outputLinks,
                   output, emitted, cancelled, sent, recvRes, dirDoneRan, cancelAt, rvars>>

\* mutant: on a traversal error Batch emits what it has before returning the error
RecvErrEmitPartial ==
    /\ pc = "wait" /\ lsErr[i] # << >>
    /\ lsErr' = [lsErr EXCEPT ![i] = << >>]
    /\ recvRes' = [recvRes EXCEPT ![i] = lsErr[i][1]]
    /\ IF lsErr[i][1] # "nil"
       THEN /\ pc' = "done" /\ retErr' = lsErr[i][1]
            /\ emitted' = IF stream THEN emitted ELSE Append(emitted, [Objects |-> output])
            /\ UNCHANGED <<i, output, dirDoneRan>>
       ELSE /\ IF stream
               THEN UNCHANGED output
               ELSE \E sorted \in SortFunc(outputLinks) :
                       output' = StoreGroup(output, paths, i, sorted)
            /\ dirDoneRan' = dirDoneRan \cup {i}
            /\ i' = i + 1
            /\ pc' = "loop"
            /\ UNCHANGED <<retErr, emitted>>
    /\ UNCHANGED <<paths, stream, task, taskRes, pending, outputLinks,
                   cancelled, sent, cancelAt, rvars>>

\* mutant: a traversal error is received but the loop goes on to the next path
RecvErrKeepGoing ==
    /\ pc = "wait" /\ lsErr[i] # << >>
    /\ lsErr' = [lsErr EXCEPT ![i] = << >>]
    /\ recvRes' = [recvRes EXCEPT ![i] = lsErr[i][1]]
    /\ IF stream
       THEN UNCHANGED output
       ELSE \E sorted \in SortFunc(outputLinks) :
               output' = StoreGroup(output, paths, i, sorted)
    /\ dirDoneRan' = dirDoneRan \cup {i}
    /\ i' = i + 1
    /\ pc' = "loop"
    /\ UNCHANGED <<paths, stream, retErr, task, taskRes, pending, outputLinks, emitted,
                   cancelled, sent, cancelAt, rvars>>

\* mutant: lsErr is polled instead of awaited; an empty channel counts as success
RecvErrNonBlocking ==
    /\ pc = "wait"
    /\ LET err == IF lsErr[i] = << >> THEN "nil" ELSE lsErr[i][1] IN
       /\ lsErr' = [lsErr EXCEPT ![i] = << >>]
       /\ recvRes' = IF lsErr[i] = << >> THEN recvRes
                     ELSE [recvRes EXCEPT ![i] = lsErr[i][1]]
       /\ IF err # "nil"
          THEN /\ pc' = "done" /\ retErr' = err
               /\ UNCHANGED <<i, output, dirDoneRan>>
          ELSE /\ IF stream
                  THEN UNCHANGED output
                  ELSE \E sorted \in SortFunc(outputLinks) :
                          output' = StoreGroup(output, paths, i, sorted)
               /\ dirDoneRan' = dirDoneRan \cup {i}
               /\ i' = i + 1
               /\ pc' = "loop"
               /\ UNCHANGED retErr
    /\ UNCHANGED <<paths, stream, task, taskRes, pending, outputLinks, emitted,
                   cancelled, sent, cancelAt, rvars>>

\* err = <-lsErr; return it, or run dirDone(i) and go to the next path
RecvErr ==
    /\ pc = "wait" /\ lsErr[i] # << >>
    /\ lsErr' = [lsErr EXCEPT ![i] = << >>]
    /\ recvRes' = [recvRes EXCEPT ![i] = lsErr[i][1]]
    /\ IF Failed(lsErr[i][1])
       THEN /\ Return(lsErr[i][1])
            /\ UNCHANGED <<i, output, dirDoneRan>>
       ELSE /\ IF stream
               THEN UNCHANGED output
               ELSE \E sorted \in SortFunc(outputLinks) :
                       output' = StoreGroup(output, paths, i, sorted)
            /\ dirDoneRan' = dirDoneRan \cup {i}
            /\ i' = i + 1
            /\ pc' = "loop"
            /\ UNCHANGED retErr
    /\ UNCHANGED <<paths, stream, task, taskRes, pending, outputLinks, emitted,
                   cancelled, sent, cancelAt, rvars>>

\* after the last path: return done()
Finish ==
    /\ pc = "loop" /\ i > N
    /\ IF stream
       THEN /\ Return("nil")
            /\ UNCHANGED emitted
       ELSE /\ emitted' = Append(emitted, LsOutput(output))
            /\ \E emitErr \in {"nil", "EmitErr"} : Return(emitErr)
    /\ UNCHANGED <<paths, stream, i, task, taskRes, pending, lsErr, outputLinks, output,
                   cancelled, sent, recvRes, dirDoneRan, cancelAt, rvars>>

\* ------------------------------------------- the traversal goroutine of path k
\* the traversal finds its next entry and blocks sending it on results; it can
\* get there after Run has returned, before it looks at lsCtx again
TaskOffer(k) ==
    /\ task[k] = "run" /\ pending[k] = << >> /\ ~cancelled
    /\ TotalSent < MaxEntries
    /\ \E e \in DirEntries : pending' = [pending EXCEPT ![k] = <<e>>]
    /\ UNCHANGED <<paths, stream, pc, i, retErr, task, taskRes, lsErr, outputLinks,
                   output, emitted, cancelled, sent, recvRes, dirDoneRan, cancelAt, rvars>>

\* Ls returns on its own (success or a resolution error); results is closed
TaskReturn(k) ==
    /\ task[k] = "run" /\ pending[k] = << >> /\ ~LsCtxDone
    /\ \E r \in {"nil", "LsErr"} : taskRes' = [taskRes EXCEPT ![k] = r]
    /\ task' = [task EXCEPT ![k] = "closed"]
    /\ UNCHANGED <<paths, stream, pc, i, retErr, pending, lsErr, outputLinks, output,
                   emitted, cancelled, sent, recvRes, dirDoneRan, cancelAt, rvars>>

\* lsCtx is done: Ls gives up a blocked send, closes results and returns ctx.Err()
TaskCancel(k) ==
    /\ task[k] = "run" /\ LsCtxDone
    /\ pending' = [pending EXCEPT ![k] = << >>]
    /\ taskRes' = [taskRes EXCEPT ![k] = "Cancelled"]
    /\ task' = [task EXCEPT ![k] = "closed"]
    /\ UNCHANGED <<paths, stream, pc, i, retErr, lsErr, outputLinks, output, emitted,
                   cancelled, sent, recvRes, dirDoneRan, cancelAt, rvars>>

\* lsErr <- (what Ls returned): never blocks, the channel has capacity 1
TaskSendErr(k) ==
    /\ task[k] = "closed" /\ Len(lsErr[k]) < 1
    /\ lsErr' = [lsErr EXCEPT ![k] = <<taskRes[k]>>]
    /\ task' = [task EXCEPT ![k] = "exit"]
    /\ UNCHANGED <<paths, stream, pc, i, retErr, taskRes, pending, outputLinks, output,
                   emitted, cancelled, sent, recvRes, dirDoneRan, cancelAt, rvars>>

\* ------------------------------------------------------------ environment
\* the caller cancels req.Context while Run is executing
Cancel ==
    /\ ~cancelled /\ pc # "done"
    /\ cancelled' = TRUE
    /\ cancelAt' = IF \E k \in 1..N : task[k] = "run"
                   THEN CHOOSE k \in 1..N : task[k] = "run" ELSE 0
    /\ UNCHANGED <<paths, stream, pc, i, retErr, task, taskRes, pending, lsErr,
                   outputLinks, output, emitted, sent, recvRes, dirDoneRan, rvars>>

Driver == StartPath \/ RecvLink \/ SeeClose \/ RecvErr \/ Finish
Task(k) == TaskOffer(k) \/ TaskReturn(k) \/ TaskCancel(k) \/ TaskSendErr(k)

Next == Driver \/ (\E k \in 1..N : Task(k)) \/ Cancel

Spec == Init /\ [][Next]_vars

\* goroutines are scheduled fairly; cancellation by the caller is not forced
FairSpec == Spec /\ WF_vars(Driver) /\ \A k \in 1..MaxPaths : WF_vars(k \in 1..N /\ Task(k))

\* ------------------------------------------------- rendering a response
\* the request as tabularOutput reads it
Req == [Arguments |-> paths, headers |-> headers, stream |-> stream, size |-> size]

\* the entries behind a response: every kind of the switch on link.Type
RenderEntries ==
    DirEntries \cup {[Name |-> <<99>>, Cid |-> 4, Size |-> 12, Type |-> "iface.TSymlink"]}

\* the links Run can put into a unit
RLinks == { MakeLsLink(e) : e \in RenderEntries }

SeqsUpTo(S, n) == UNION { [1..m -> S] : m \in 0..n }
RECURSIVE SumLinks(_, _)
SumLinks(objs, n) == IF n = 0 THEN 0 ELSE Len(objs[n].Links) + SumLinks(objs, n - 1)

NoBadPath(n) == \A j \in 1..n : paths[j] # BadKey

\* the one unit a successful Batch run emits: a group per path, in request
\* order, each sorted by name
BatchUnits ==
    IF ~NoBadPath(N) THEN {}
    ELSE LET sorted == { s \in SeqsUpTo(RLinks, MaxEntries) : IsSortedByName(s) }
         IN { LsOutput([k \in 1..N |-> LsObject(paths[k], f[k])]) :
                f \in { g \in [1..N -> sorted] :
                          SumLinks([k \in 1..N |-> [Links |-> g[k]]], N) <= MaxEntries } }

\* the path the last unit came from (Streaming)
LastIdx == IF respIdx = << >> THEN 1 ELSE respIdx[Len(respIdx)]

\* what res.Next() can deliver next, with the path it belongs to
NextUnits ==
    IF stream
    THEN { [unit |-> StreamUnit(paths[g], l), idx |-> g] :
             g \in { h \in LastIdx..N : NoBadPath(h) /\ Len(resp) < MaxEntries },
             l \in RLinks }
    ELSE IF resp = << >> THEN { [unit |-> u, idx |-> 0] : u \in BatchUnits } ELSE {}

\* PostRun (CLI): v, err := res.Next(); lastObjectHash = tabularOutput(..., false)
PostRunNext ==
    /\ transport = "cli" /\ ~rdone
    /\ \E n \in NextUnits :
         LET r == TabularOutput(Req, n.unit, lastObjectHash, FALSE) IN
         /\ lastObjectHash' = r.last
         /\ tw' = tw \o r.lines
         /\ resp' = Append(resp, n.unit)
         /\ respIdx' = Append(respIdx, n.idx)
    /\ UNCHANGED <<paths, stream, dvars, headers, size, transport, rdone, call>>

\* PostRun (CLI): res.Next() returns io.EOF
PostRunEOF ==
    /\ transport = "cli" /\ ~rdone
    /\ rdone' = TRUE
    /\ UNCHANGED <<paths, stream, dvars, headers, size, transport, resp, respIdx,
                   lastObjectHash, tw, call>>

\* the Text encoder: tabularOutput(req, w, out, "", ignoreBreaks) with
\* ignoreBreaks = the stream option; the returned key is dropped
EncodeText ==
    /\ transport = "text"
    /\ \E n \in NextUnits :
         LET r == TabularOutput(Req, n.unit, EmptyStr, stream) IN
         /\ tw' = tw \o r.lines
         /\ resp' = Append(resp, n.unit)
         /\ respIdx' = Append(respIdx, n.idx)
    /\ UNCHANGED <<paths, stream, dvars, headers, size, transport, lastObjectHash, rdone,
                   call>>

RenderSpecInit ==
    /\ paths \in PathLists
    /\ stream \in BOOLEAN
    /\ DriverInit
    /\ headers \in BOOLEAN /\ size \in BOOLEAN /\ transport \in {"cli", "text"}
    /\ RenderInit

RenderNext == PostRunNext \/ PostRunEOF \/ EncodeText

RenderSpec == RenderSpecInit /\ [][RenderNext]_vars

\* ------------------------------------------ tabularOutput as a function
\* the *LsOutput values tabularOutput is applied to: any list of objects, each
\* with any key and at most one link
TabularObjects == { LsObject(k, l) : k \in {KeyA, KeyB}, l \in SeqsUpTo(RLinks, 1) }
TabularUnits == { LsOutput(o) : o \in SeqsUpTo(TabularObjects, MaxPaths) }

\* tabularOutput(req, w, out, lastObjectHash, ignoreBreaks) for any arguments
CallTabular ==
    /\ ~call.made
    /\ \E out \in TabularUnits, last \in {EmptyStr, KeyA, KeyB}, ignoreBreaks \in BOOLEAN :
         LET r == TabularOutput(Req, out, last, ignoreBreaks) IN
         call' = [made |-> TRUE, out |-> out, lastObjectHash |-> last,
                  ignoreBreaks |-> ignoreBreaks, lines |-> r.lines, last |-> r.last]
    /\ UNCHANGED <<paths, stream, dvars, headers, size, transport, resp, respIdx,
                   lastObjectHash, tw, rdone>>

\* tabularOutput reads the options and the number of req.Arguments only
TabularInit ==
    /\ paths \in { [k \in 1..n |-> KeyA] : n \in 1..MaxPaths }
    /\ stream \in BOOLEAN
    /\ DriverInit
    /\ headers \in BOOLEAN /\ size \in BOOLEAN /\ transport = "cli"
    /\ RenderInit

TabularNext == CallTabular

TabularSpec == TabularInit /\ [][TabularNext]_vars

\* =================================================================== claims
\* helpers of the claims: what the requested paths and the feeds say a unit must be
IsErr(r) == r \notin {"none", "nil"}
AllSucceeded == \A k \in 1..N : recvRes[k] = "nil"
RECURSIVE SumSent(_)
SumSent(n) == IF n = 0 THEN 0 ELSE Len(sent[n]) + SumSent(n - 1)
RECURSIVE UnitPath(_, _)
\* the path whose feed delivered the n-th entry of the run (counting from path k)
UnitPath(n, k) == IF k >= N \/ n <= Len(sent[k]) THEN k ELSE UnitPath(n - Len(sent[k]), k + 1)
\* the n-th entry of the run
UnitEntry(n) == LET k == UnitPath(n, 1) IN sent[k][n - SumSent(k - 1)]
Ascending(links) ==
    \A a, b \in 1..Len(links) : a < b => Compare(links[a].Name, links[b].Name) <= 0

\* C1: in Batch mode at most one unit is ever emitted, and only after the
\* terminal result of every path was received as success; once the run has
\* returned with all N traversals successful there is exactly one unit, it holds
\* N groups, the k-th keyed by the k-th requested path (also for a path with no
\* entries), and every group's entries ascend byte-wise by name.
C1_BatchOneSortedUnit ==
    ~stream =>
        /\ Len(emitted) <= 1
        /\ emitted # << >> => AllSucceeded /\ pc = "done"
        /\ (pc = "done" /\ AllSucceeded) =>
              /\ Len(emitted) = 1
              /\ Len(emitted[1].Objects) = N
              /\ \A k \in 1..N :
                    /\ emitted[1].Objects[k].Hash = paths[k]
                    /\ Len(emitted[1].Objects[k].Links) = Len(sent[k])
                    /\ Ascending(emitted[1].Objects[k].Links)

\* C1 witness: a finished Batch run of two paths, the first with no entry, the
\* second with two entries that arrived out of name order.
C1_Witness ==
    /\ ~stream /\ pc = "done" /\ N = 2 /\ AllSucceeded /\ Len(emitted) = 1
    /\ sent[1] = << >> /\ Len(sent[2]) = 2
    /\ Compare(sent[2][1].Name, sent[2][2].Name) > 0

\* C2: in Streaming mode the units emitted so far are as many as the entries
\* received so far; every unit holds one group with one entry, keyed by the path
\* whose feed delivered that entry; a successful run ends with as many units as
\* entries over all paths (the finalize step adds none).
C2_StreamUnitPerEntry ==
    stream =>
        /\ Len(emitted) = TotalSent
        /\ \A n \in 1..Len(emitted) :
              /\ Len(emitted[n].Objects) = 1
              /\ Len(emitted[n].Objects[1].Links) = 1
              /\ emitted[n].Objects[1].Hash = paths[UnitPath(n, 1)]
        /\ (pc = "done" /\ retErr = "nil") =>
              /\ Len(emitted) = SumSent(N)
              /\ \A k \in 1..N : task[k] = "exit"

\* C2 witness: a successful Streaming run with entries on both of two paths.
C2_Witness ==
    /\ stream /\ pc = "done" /\ retErr = "nil" /\ N = 2
    /\ paths[1] # paths[2]
    /\ Len(sent[1]) = 1 /\ Len(sent[2]) = 1 /\ Len(emitted) = 2

\* C3: in Batch mode, once a path failed to parse or a traversal ended with an
\* error, the run has returned that error and no unit has been emitted, in that
\* state and in every later one.
C3_BatchErrorEmitsNothing ==
    ~stream =>
        /\ \A k \in 1..N : IsErr(recvRes[k]) =>
              pc = "done" /\ retErr = recvRes[k] /\ emitted = << >>
        /\ retErr = "ParseErr" => pc = "done" /\ emitted = << >>
        /\ (pc = "loop" /\ i <= N /\ paths[i] = BadKey) => emitted = << >>

\* C3 witness: Batch, the first path succeeded with entries buffered and
\* stored, the second delivered an entry and then failed.
C3_Witness ==
    /\ ~stream /\ pc = "done" /\ N = 2
    /\ recvRes[1] = "nil" /\ Len(sent[1]) >= 1 /\ Len(output[1].Links) >= 1
    /\ recvRes[2] = "LsErr" /\ Len(sent[2]) >= 1

\* C4: in Streaming mode, once the traversal of path k has failed, the run has
\* returned that error and the units the sink got are exactly, in order, one per
\* entry of the paths before k and then one per entry path k delivered: each
\* entry once, nothing after the error.
C4_StreamErrorKeepsPrefix ==
    stream =>
        \A k \in 1..N : IsErr(recvRes[k]) =>
            /\ pc = "done" /\ retErr = recvRes[k]
            /\ Len(emitted) = SumSent(k)
            /\ \A j \in 1..N : j > k => sent[j] = << >>
            /\ \A n \in 1..Len(emitted) :
                  LET e == UnitEntry(n)
                      o == emitted[n].Objects
                  IN /\ Len(o) = 1 /\ Len(o[1].Links) = 1
                     /\ o[1].Hash = paths[UnitPath(n, 1)]
                     /\ o[1].Links[1].Name = e.Name
                     /\ o[1].Links[1].Hash = Encode(e.Cid)
                     /\ o[1].Links[1].Size = e.Size

\* C4 witness: Streaming, the first path delivered an entry and succeeded, the
\* second delivered an entry and then failed.
C4_Witness ==
    /\ stream /\ pc = "done" /\ N = 2
    /\ recvRes[1] = "nil" /\ Len(sent[1]) = 1
    /\ recvRes[2] = "LsErr" /\ Len(sent[2]) = 1 /\ Len(emitted) = 2

\* the paths that have failed: the parse of the path was refused, or its
\* traversal returned an error
PathFailed(k) ==
    \/ IsErr(taskRes[k])
    \/ (retErr = "ParseErr" /\ i = k)

\* C5: a run that ends with a path's error ends with the error of the
\* lowest-index path that failed, every path before it having succeeded; and
\* once a path has failed, no traversal task exists for any later path, in both
\* modes.
C5_FirstErrorStops ==
    /\ \A k \in 1..N : PathFailed(k) => \A j \in 1..N : j > k => task[j] = "idle"
    /\ \A k \in 1..N : IsErr(recvRes[k]) =>
          /\ pc = "done" /\ retErr = recvRes[k] /\ recvRes[k] = taskRes[k]
          /\ \A j \in 1..(k - 1) : recvRes[j] = "nil" /\ ~PathFailed(j)
    /\ retErr \in {"LsErr", "Cancelled"} => IsErr(recvRes[i])
    /\ retErr = "ParseErr" =>
          /\ pc = "done" /\ paths[i] = BadKey /\ task[i] = "idle"
          /\ \A j \in 1..(i - 1) : recvRes[j] = "nil" /\ ~PathFailed(j)

\* C5 witness: the first of two paths failed; the second, which would not even
\* parse, was never looked at.
C5_Witness ==
    /\ N = 2 /\ pc = "done" /\ retErr = "LsErr" /\ recvRes[1] = "LsErr"
    /\ paths[2] = BadKey /\ task[2] = "idle"

\* C6: a traversal task exists for a path only when, for every earlier path,
\* the feed is closed with nothing left on it, the task has delivered its
\* terminal result, the driver has received it as success, and the
\* group-complete step has run; so at most one task has its feed open.
C6_Sequential ==
    /\ \A k \in 1..N : task[k] # "idle" =>
          \A j \in 1..(k - 1) :
             /\ task[j] = "exit" /\ pending[j] = << >>
             /\ recvRes[j] = "nil"
             /\ j \in dirDoneRan
    /\ Cardinality({k \in 1..N : task[k] = "run"}) <= 1
    /\ \A k \in 1..N : pending[k] # << >> => task[k] = "run" /\ k = i

\* C6 witness: the second task is producing while the first path is complete.
C6_Witness ==
    /\ N = 2 /\ task[2] = "run" /\ pending[2] # << >>
    /\ task[1] = "exit" /\ recvRes[1] = "nil" /\ 1 \in dirDoneRan /\ Len(sent[1]) >= 1

\* the parts of C7 that do not depend on why the driver returned: a terminal
\* result is received only from a closed, empty feed; and a path counts as
\* complete (group-complete step, next path, finalize, success) only after its
\* terminal result was received as success.
C7_DrainThenCheck ==
    /\ \A k \in 1..N : recvRes[k] # "none" =>
          task[k] = "exit" /\ pending[k] = << >> /\ recvRes[k] = taskRes[k]
    /\ \A k \in 1..N :
          (k \in dirDoneRan \/ k < i \/ (pc = "done" /\ retErr = "nil")) =>
              recvRes[k] = "nil"
    /\ (pc = "wait") => FeedClosed(i) /\ pending[i] = << >>

\* C7 as stated: ..., and when the driver has returned, the terminal result of
\* every path whose feed is closed has been received.
C7_Original ==
    /\ C7_DrainThenCheck
    /\ pc = "done" => \A k \in 1..N : FeedClosed(k) => recvRes[k] # "none"

\* C7 (amended): as stated, except for the path being drained when the driver
\* returns a sink emit error in Streaming mode: its feed closes after the
\* driver has returned and its terminal result is never received.
C7_Amended ==
    /\ C7_DrainThenCheck
    /\ pc = "done" =>
          \A k \in 1..N : FeedClosed(k) =>
              \/ recvRes[k] # "none"
              \/ (stream /\ retErr = "EmitErr" /\ k = i)

\* C7 witness: the terminal result of a path that delivered no entry has been
\* received, and the run went on to finish.
C7_Witness ==
    /\ N = 2 /\ pc = "done" /\ retErr = "nil"
    /\ sent[1] = << >> /\ recvRes[1] = "nil" /\ Len(sent[2]) >= 1 /\ recvRes[2] = "nil"

\* what holds in every state after req.Context was cancelled with a task in flight
C8_Safety(errors) ==
    cancelAt # 0 =>
        /\ \A j \in 1..N : j > cancelAt => task[j] = "idle"
        /\ ~stream => emitted = << >>
        /\ pc = "done" => retErr \in errors

\* C8 as stated: after a cancellation with a task in flight the run does not
\* start a later path, emits nothing in Batch mode, and when it has returned its
\* result is the cancellation error.
C8_Original == C8_Safety({"Cancelled"})

\* C8 (amended): after a cancellation with a task in flight the feed closes
\* and the driver returns, no later path is started, Batch emits nothing, and
\* the result is an error, never success: the cancellation error, or, in
\* Streaming mode only, the sink's error for an entry received as the
\* cancellation happened.
C8_Amended ==
    /\ [](C8_Safety(IF stream THEN {"Cancelled", "EmitErr"} ELSE {"Cancelled"}))
    /\ (cancelAt # 0) ~> (pc = "done" /\ \A k \in 1..N : task[k] \in {"idle", "exit"})

\* C8 witness: Batch, cancelled while the second task was blocked sending; the
\* run returned the cancellation error.
C8_Witness ==
    /\ ~stream /\ N = 2 /\ cancelAt = 2 /\ pc = "done" /\ retErr = "Cancelled"
    /\ Len(sent[1]) >= 1 /\ task[2] = "exit"

\* ------------------------------------------------ claims about the renderer
\* a rendered line with the content of an entry row left out
RowMark == [kind |-> "row", cells |-> << >>]
Skeleton(lines) ==
    [n \in 1..Len(lines) |-> IF lines[n].kind = "row" THEN RowMark ELSE lines[n]]
Without(lines, kinds) == SelectSeq(lines, LAMBDA l : l.kind \notin kinds)
RowMarks(n) == [k \in 1..n |-> RowMark]

\* the groups the renderer was given, as [key, rows]: the objects of the Batch
\* unit, or in Streaming mode the runs of units that came from one requested path
BatchGroups == [k \in 1..Len(resp[1].Objects) |->
                  [key |-> resp[1].Objects[k].Hash, rows |-> Len(resp[1].Objects[k].Links)]]
RECURSIVE StreamGroups(_)
StreamGroups(n) ==
    IF n = 0 THEN << >>
    ELSE LET g == StreamGroups(n - 1) IN
         IF n > 1 /\ respIdx[n] = respIdx[n - 1]
         THEN [g EXCEPT ![Len(g)].rows = @ + 1]
         ELSE Append(g, [key |-> resp[n].Objects[1].Hash, rows |-> 1])
Groups == IF stream THEN StreamGroups(Len(resp)) ELSE BatchGroups

RECURSIVE LabelledLayout(_, _)
\* per group: a blank line unless it is the first group, its label, its rows
LabelledLayout(groups, k) ==
    IF k > Len(groups) THEN << >>
    ELSE (IF k > 1 THEN <<BlankLine>> ELSE << >>)
         \o <<LabelLine(groups[k].key)>> \o RowMarks(groups[k].rows)
         \o LabelledLayout(groups, k + 1)

RECURSIVE HeaderLayout(_, _)
\* per group: one header row, then its rows
HeaderLayout(groups, k) ==
    IF k > Len(groups) THEN << >>
    ELSE <<HeaderLine(size)>> \o RowMarks(groups[k].rows) \o HeaderLayout(groups, k + 1)

\* breaks are rendered: PostRun always, the Text encoder unless streaming
BreaksRendered == transport = "cli" \/ ~stream

\* C9: when the Batch unit has been rendered with breaks, then with more than
\* one requested path every group, in request order, has its "<groupKey>:"
\* label before its rows and a blank line before every label but the first;
\* with one requested path there is no label and no blank line. For every path
\* list, also one that repeats a path.
C9_LabelPerGroup ==
    (~stream /\ BreaksRendered /\ Len(resp) = 1) =>
        IF N > 1
        THEN Skeleton(Without(tw, {"header"})) = LabelledLayout(BatchGroups, 1)
        ELSE \A n \in 1..Len(tw) : tw[n].kind \notin {"label", "blank"}

\* C10: when headers are requested and breaks are rendered, every group has
\* its header row exactly once, before its first row and right after its label
\* where a label is printed, with the Size column exactly when size is enabled;
\* in Streaming mode, over the calls threaded by lastObjectHash, the units of
\* one group print header and label once.
C10_HeaderPerGroup ==
    (headers /\ BreaksRendered /\ resp # << >>) =>
        /\ Skeleton(Without(tw, {"blank", "label"})) = HeaderLayout(Groups, 1)
        /\ \A n \in 1..Len(tw) :
              tw[n].kind = "label" => n < Len(tw) /\ tw[n + 1] = HeaderLine(size)

\* ------------------------------------------- claims about run and renderer
\* the request with the given header and size options
ReqWith(h, sz) == [Arguments |-> paths, headers |-> h, stream |-> stream, size |-> sz]

\* a Batch run over one path whose directory is empty has handed over its unit
EmptyDirRun == ~stream /\ N = 1 /\ pc = "done" /\ sent[1] = << >> /\ emitted # << >>

\* what the renderer (PostRun, or the Text encoder of a Batch run) prints for
\* the first unit of the response
FirstUnitLines(h, sz) == TabularOutput(ReqWith(h, sz), emitted[1], EmptyStr, FALSE).lines

\* C11 as stated: a Batch run over a single path that is an empty directory
\* produces one group with an empty entry list, and its rendering has a group
\* label, a header row if headers are enabled, and no entry row.
C11_Original ==
    EmptyDirRun =>
        /\ emitted = <<LsOutput(<<LsObject(paths[1], << >>)>>)>>
        /\ \A h \in BOOLEAN, sz \in BOOLEAN :
              FirstUnitLines(h, sz)
                = <<LabelLine(paths[1])>> \o (IF h THEN <<HeaderLine(sz)>> ELSE << >>)

\* C11 (amended): a Batch run over a single path that is an empty directory
\* produces one group with an empty entry list, and its rendering has no group
\* label (one path was requested), a header row exactly if headers are enabled,
\* and no entry row.
C11_EmptyDir ==
    EmptyDirRun =>
        /\ emitted = <<LsOutput(<<LsObject(paths[1], << >>)>>)>>
        /\ \A h \in BOOLEAN, sz \in BOOLEAN :
              FirstUnitLines(h, sz) = (IF h THEN <<HeaderLine(sz)>> ELSE << >>)

\* C11 witness: the run over one empty directory succeeded and emitted its unit
C11_Witness == EmptyDirRun /\ retErr = "nil" /\ recvRes[1] = "nil" /\ Len(emitted) = 1

RECURSIVE ObjectsLinks(_)
\* the links of a list of objects, in order
ObjectsLinks(objects) ==
    IF objects = << >> THEN << >> ELSE Head(objects).Links \o ObjectsLinks(Tail(objects))
RECURSIVE RespLinks(_)
\* the links of the first n units the renderer was given, in order
RespLinks(n) == IF n = 0 THEN << >> ELSE RespLinks(n - 1) \o ObjectsLinks(resp[n].Objects)

\* the kinds the renderer is to show as directories
DirectoryKinds == {"TDirectory", "THAMTShard"}

\* the cells the row of a link must have
RowAsClaimed(link, cells) ==
    /\ Len(cells) = (IF size THEN 3 ELSE 2)
    /\ cells[1] = link.Hash
    /\ IF link.Type \in DirectoryKinds
       THEN /\ cells[Len(cells)] = EscNonPrint(link.Name) \o <<Slash>>
            /\ size => cells[2] = <<Dash>>
       ELSE /\ cells[Len(cells)] = EscNonPrint(link.Name)
            /\ size => cells[2] = Decimal(link.Size)

\* C12: every entry the renderer was given has its row, in order, and for
\* every kind Run can give an entry (Raw, File, Directory, Symlink): the row of
\* a directory has the name followed by "/" and, when size is enabled, "-" in
\* the size column; the row of any other kind has the bare name and, when size
\* is enabled, the decimal size; with size disabled no row has a size cell.
C12_RowPerKind ==
    LET links == RespLinks(Len(resp))
        rows == Without(tw, {"blank", "label", "header"})
    IN /\ Len(rows) = Len(links)
       /\ \A n \in 1..Len(rows) : RowAsClaimed(links[n], rows[n].cells)

\* C12 witness: with size enabled, a directory and a symlink have been rendered
C12_Witness ==
    /\ size
    /\ \E n, m \in 1..Len(RespLinks(Len(resp))) :
         /\ RespLinks(Len(resp))[n].Type = "TDirectory"
         /\ RespLinks(Len(resp))[m].Type = "TSymlink"
    /\ Len(Without(tw, {"blank", "label", "header"})) = 2

\* ------------------------------------- claims about tabularOutput's result
\* the objects of the unit tabularOutput was applied to
CallObjects == call.out.Objects

\* C13 as stated: for every unit with at least one group, whatever headers,
\* size and ignoreBreaks are, tabularOutput returns the key of the unit's last
\* group; for a unit with no group it returns the key it was given.
C13_Original ==
    call.made =>
        call.last = (IF CallObjects # << >> THEN CallObjects[Len(CallObjects)].Hash
                     ELSE call.lastObjectHash)

\* C13 (amended): with ignoreBreaks false, tabularOutput returns the key of
\* the unit's last group for every unit with at least one group, whatever
\* headers and size are; with ignoreBreaks true, and for a unit with no group,
\* it returns the key it was given.
C13_ReturnedKey ==
    call.made =>
        call.last = (IF ~call.ignoreBreaks /\ CallObjects # << >>
                     THEN CallObjects[Len(CallObjects)].Hash
                     ELSE call.lastObjectHash)

\* C13 witness: breaks rendered, a unit of two groups with different keys, the
\* key given is the first group's; the second group's key comes back
C13_Witness ==
    /\ call.made /\ ~call.ignoreBreaks /\ Len(CallObjects) = 2
    /\ CallObjects[1].Hash = KeyA /\ CallObjects[2].Hash = KeyB
    /\ call.lastObjectHash = KeyA /\ call.last = KeyB

\* C15: with ignoreBreaks true tabularOutput prints no label, no blank line
\* and no header, whatever headers, the number of requested paths and the key
\* given are: the output is the entry rows, one per link, and the key returned
\* is the key given.
C15_IgnoreBreaks ==
    (call.made /\ call.ignoreBreaks) =>
        /\ \A n \in 1..Len(call.lines) : call.lines[n].kind = "row"
        /\ Len(call.lines) = Len(ObjectsLinks(CallObjects))
        /\ call.last = call.lastObjectHash

\* C15 witness: headers on, two requested paths, a key given that differs
\* from the keys of the unit's two groups, both groups with a link
C15_Witness ==
    /\ call.made /\ call.ignoreBreaks /\ headers /\ N = 2
    /\ Len(CallObjects) = 2 /\ CallObjects[1].Hash = KeyB /\ CallObjects[2].Hash = KeyA
    /\ call.lastObjectHash = KeyA /\ Len(call.lines) = 2

\* ------------------------------------ claims about order and content
\* the link an entry of a feed is to be shown as
EntryLink(e) == [Name |-> e.Name, Hash |-> Encode(e.Cid), Size |-> e.Size, Type |-> FType(e.Type)]
\* the links of the entries path k's feed delivered, in the order of delivery
FeedLinks(k) == [n \in 1..Len(sent[k]) |-> EntryLink(sent[k][n])]
\* how often x occurs in the sequence s
Count(s, x) == Cardinality({ n \in 1..Len(s) : s[n] = x })
\* t holds the elements of s, each as often as s does
SameBag(t, s) ==
    /\ Len(t) = Len(s)
    /\ \A n \in 1..Len(s) : Count(t, s[n]) = Count(s, s[n])

\* C16: in Streaming mode the units emitted so far are, in this order, the
\* entries of the first path in the order its feed delivered them, then those
\* of the second path in its feed's order, and so on: a unit of path i comes
\* before a unit of path j only if i <= j, and units of one path keep the
\* order of discovery (which need not be the order of names).
C16_StreamOrder ==
    stream =>
        /\ Len(emitted) = SumSent(N)
        /\ \A n \in 1..Len(emitted) :
              emitted[n] = LsOutput(<<LsObject(paths[UnitPath(n, 1)],
                                              <<EntryLink(UnitEntry(n))>>)>>)

\* C16 witness: two different paths, one entry each, the first path's entry
\* with the greater name; both units emitted
C16_Witness ==
    /\ stream /\ N = 2 /\ paths[1] # paths[2] /\ Len(emitted) = 2
    /\ Len(sent[1]) = 1 /\ Len(sent[2]) = 1
    /\ Compare(sent[1][1].Name, sent[2][1].Name) > 0

\* what Batch has stored for every path whose dirDone has run
GroupsStored ==
    ~stream =>
        \A k \in dirDoneRan :
            /\ output[k].Hash = paths[k]
            /\ SameBag(output[k].Links, FeedLinks(k))

\* a stored group is not touched by anything that happens later
GroupsKept == ~stream => \A k \in dirDoneRan : output'[k] = output[k]

\* C17: in Batch mode the group stored for path i is keyed by the i-th
\* requested path string and holds exactly the entries path i's feed delivered,
\* each as often as it was delivered and none of another path; and no later
\* step (buffering entries of a later path, storing a later group, emitting)
\* changes a group once stored.
C17_GroupPerPath == []GroupsStored /\ [][GroupsKept]_vars

\* C17 witness: two different paths with one entry each, different entries,
\* both groups stored
C17_Witness ==
    /\ ~stream /\ N = 2 /\ paths[1] # paths[2] /\ dirDoneRan = {1, 2}
    /\ Len(sent[1]) = 1 /\ Len(sent[2]) = 1 /\ sent[1] # sent[2]

\* C18: the two modes show the same content for the same traversal results.
\* After a successful run, for every path k: in Streaming mode the units of
\* path k carry, in order, the links of the entries its feed delivered; in
\* Batch mode group k is those same links in ascending order of name. So
\* sorting a path's Streaming entries by name gives the Batch group; and a
\* path without entries has an empty group in Batch and no unit in Streaming.
C18_ModesAgree ==
    (pc = "done" /\ retErr = "nil") =>
        IF stream
        THEN /\ Len(emitted) = SumSent(N)
             /\ \A k \in 1..N :
                   [n \in 1..Len(sent[k]) |-> emitted[SumSent(k - 1) + n].Objects[1].Links[1]]
                     = FeedLinks(k)
        ELSE /\ Len(emitted) = 1 /\ Len(emitted[1].Objects) = N
             /\ \A k \in 1..N :
                   /\ SameBag(emitted[1].Objects[k].Links, FeedLinks(k))
                   /\ Ascending(emitted[1].Objects[k].Links)

\* C18 witness: a successful Batch run whose first path delivered two entries
\* in descending order of name and whose second path delivered none
C18_Witness ==
    /\ ~stream /\ pc = "done" /\ retErr = "nil" /\ N = 2
    /\ Len(sent[1]) = 2 /\ sent[2] = << >>
    /\ Compare(sent[1][1].Name, sent[1][2].Name) > 0
    /\ emitted[1].Objects[2].Links = << >>

\* ------------------------------------------------ claims about termination
\* no traversal goroutine is running or about to send its result
TasksGone == \A k \in 1..N : task[k] \in {"idle", "exit"}

\* C19: no traversal goroutine stays blocked after Run has returned, whatever
\* it returned: a goroutine about to send its result always finds lsErr empty
\* (capacity 1, one send per goroutine), so that send needs no receiver; lsErr
\* never holds more than one value; and once Run has returned, every goroutine
\* that was started, also one blocked sending an entry that nobody will
\* receive, gets to its end.
C19_NoTaskLeftBlocked ==
    /\ [](\A k \in 1..N : /\ Len(lsErr[k]) <= 1
                           /\ task[k] = "closed" => lsErr[k] = << >>)
    /\ (pc = "done") ~> TasksGone

\* C19 witness: Run has returned the sink's error while the goroutine of the
\* path being drained is blocked sending its next entry
C19_Witness ==
    /\ pc = "done" /\ retErr = "EmitErr"
    /\ \E k \in 1..N : task[k] = "run" /\ pending[k] # << >>

\* C20: with goroutines scheduled fairly, traversals that end and a sink that
\* answers, Run returns in the end, in either mode and for every path list
\* and feed content; until it has returned, the driver or a traversal
\* goroutine can take a step; and it returns success only after the last path,
\* otherwise an error.
C20_Terminates ==
    /\ <>(pc = "done")
    /\ [](pc # "done" => ENABLED (Driver \/ \E k \in 1..N : Task(k)))
    /\ [](pc = "done" => /\ retErr # "running"
                         /\ retErr = "nil" => i > N)

\* C20 witness: a successful Streaming run over two paths, the first with two
\* entries, the second with none
C20_Witness ==
    /\ stream /\ pc = "done" /\ retErr = "nil" /\ N = 2
    /\ Len(sent[1]) = 2 /\ sent[2] = << >> /\ TasksGone

====
